---- MODULE Spec2Model ----
(***************************************************************************)
(* A model of the multi-level queue scheduler of src/mlqs.py: the five     *)
(* priority queues (FIFO, Round Robin, SJF), the CPU pool, the tick loop   *)
(* of run_scheduler, the CPU execution tasks it spawns, and the two ways   *)
(* processes are submitted (the static pre-load and the add_processes      *)
(* feeder task of src/app.py).                                             *)
(*                                                                         *)
(* The program is single-threaded asyncio code.  A coroutine runs without  *)
(* interruption between two suspending awaits; Queue.put on an unbounded   *)
(* queue and Queue.get on a non-empty queue do not suspend.  One iteration *)
(* of the loop of run_scheduler therefore is one atomic step (it suspends  *)
(* only in asyncio.sleep(1)), the part of execute_and_count after the      *)
(* sleep of CPU.execute_process is one atomic step, and so is one arrival  *)
(* of the feeder.                                                          *)
(***************************************************************************)
EXTENDS Integers, Sequences, FiniteSets, TLC

\* ---------------------------------------------------------------- bounds
MaxCpus == 2
\* processes of a static pre-load
MaxProcs == 3
\* processes of a feeder
MaxArrivals == 2
MaxBurst == 3
MaxQuantum == 2
MaxSlice == 2
\* the number of loop iterations that may pass while one CPU execution sleeps
MaxSliceTicks == 1
\* the number of loop iterations that may pass between two feeder arrivals
MaxArrivalTicks == 1
\* the largest lower end of the range of the random Interactive burst times
MinBurstLimit == 2

\* ------------------------------------------------------------- constants
PriorityOrder == <<"Real Time", "System", "Interactive", "Batch", "Low Priority">>

Priorities == {PriorityOrder[i] : i \in DOMAIN PriorityOrder}

algorithm ==
  [pr \in Priorities |->
     CASE pr = "Real Time" -> "FIFO"
       [] pr = "System" -> "Round Robin"
       [] pr = "Interactive" -> "SJF"
       [] pr = "Batch" -> "FIFO"
       [] pr = "Low Priority" -> "Round Robin"]

PriorityIndex(pr) == CHOOSE i \in DOMAIN PriorityOrder : PriorityOrder[i] = pr

None == 0

Min(a, b) == IF a <= b THEN a ELSE b

VARIABLES
  mode,                    \* "static" (run_simulation_static) or "dynamic"
  pc,                      \* "loading", "running" (in the loop), "finished" or "failed"
  num_cpus,                \* len(self.cpus)
  total_processes,         \* self.total_processes
  time_quantum,            \* self.time_quantum
  time_quantum_arg,        \* the time_quantum argument of the caller that built the scheduler
  cpu_burst_time,          \* CPU.burst_time, the slice limit of every CPU
  default_burst,           \* burst_time argument of add_processes
  use_random_interactive_burst, \* argument of add_processes
  interactive_burst_time_range, \* argument of add_processes
  procs,                   \* the Process objects, in order of creation
  queue,                   \* ProcessQueue.queue of every priority level
  new_process_count,       \* ProcessQueue.new_process_count
  timestamps,              \* ProcessQueue.timestamps
  wait_times,              \* ProcessQueue.wait_times
  clock,                   \* readings of time.time() so far; a reading is its number
  raised,                  \* the keys of the KeyErrors schedule_process raised
  average_wait,            \* what average_wait_times returned when the loop ended
  is_free,                 \* CPU.is_free
  running,                 \* the process of the execute_and_count task of a CPU
  completed_process_count, \* CPU.completed_process_count
  execution_times,         \* CPU.execution_times
  completed_processes,     \* self.completed_processes
  cpu_usage_data,          \* self.cpu_usage_data
  queue_fill_data,         \* self.queue_fill_data
  ticks,                   \* iterations of the loop of run_scheduler so far
  counted,                 \* per process: times it was counted as completed
  rr_rounds,               \* per process: get_rr_process calls up to its first return
  handed,                  \* per process: the get_rr_process call that first returned it
  started,                 \* the processes given to a CPU, in order
  sjf_last,                \* the last get_sjf_process call: queue before, result, queue after
  calls,                   \* the priority arguments of the schedule_process calls
  enq_stamp,               \* per process: the timestamp of its last add_process
  aligned,                 \* every get_process so far removed the timestamp of its process
  cpu_time,                \* per process: the sum of the slices CPUs executed for it
  slept,                   \* per CPU: loop iterations since its task started
  feeder_slept             \* loop iterations since the last feeder arrival

vars ==
  <<mode, pc, num_cpus, total_processes, time_quantum, time_quantum_arg,
    cpu_burst_time, default_burst, use_random_interactive_burst, interactive_burst_time_range,
    procs, queue, is_free, running, completed_process_count,
    completed_processes, cpu_usage_data, queue_fill_data, ticks, counted,
    rr_rounds, handed, started, sjf_last, slept, feeder_slept,
    new_process_count, timestamps, wait_times, clock, raised, average_wait,
    execution_times, enq_stamp, aligned, cpu_time, calls>>

\* what only the queue operations change
queue_books == <<new_process_count, timestamps, wait_times, clock, enq_stamp, aligned>>

config ==
  <<mode, num_cpus, total_processes, time_quantum, time_quantum_arg, cpu_burst_time,
    default_burst, use_random_interactive_burst, interactive_burst_time_range>>

Cpus == 0 .. (num_cpus - 1)

ProcIds == 1 .. (MaxProcs + MaxArrivals)

\* the scheduler object with its queues, CPUs and processes, as one value
\* the steps of a loop iteration work on
self ==
  [queue |-> queue, procs |-> procs, is_free |-> is_free, running |-> running,
   completed_processes |-> completed_processes, counted |-> counted,
   cpu_usage_data |-> cpu_usage_data, rr_rounds |-> rr_rounds, handed |-> handed,
   started |-> started, sjf_last |-> sjf_last,
   new_process_count |-> new_process_count, timestamps |-> timestamps,
   wait_times |-> wait_times, clock |-> clock, enq_stamp |-> enq_stamp,
   aligned |-> aligned, all_empty |-> TRUE]

\* the object as the steps left it
Store(s) ==
  /\ queue' = s.queue
  /\ procs' = s.procs
  /\ is_free' = s.is_free
  /\ running' = s.running
  /\ completed_processes' = s.completed_processes
  /\ counted' = s.counted
  /\ cpu_usage_data' = s.cpu_usage_data
  /\ rr_rounds' = s.rr_rounds
  /\ handed' = s.handed
  /\ started' = s.started
  /\ sjf_last' = s.sjf_last
  /\ new_process_count' = s.new_process_count
  /\ timestamps' = s.timestamps
  /\ wait_times' = s.wait_times
  /\ clock' = s.clock
  /\ enq_stamp' = s.enq_stamp
  /\ aligned' = s.aligned

\* ------------------------------------------------------------------ Init
\* the scheduler, its queues and its CPUs after __init__, nothing submitted
Constructed ==
  /\ pc = IF mode = "static" /\ total_processes > 0 THEN "loading" ELSE "running"
  /\ procs = <<>>
  /\ queue = [pr \in Priorities |-> <<>>]
  /\ is_free = [c \in Cpus |-> TRUE]
  /\ running = [c \in Cpus |-> None]
  /\ completed_process_count = [c \in Cpus |-> 0]
  /\ completed_processes = 0
  /\ cpu_usage_data = [c \in Cpus |-> <<>>]
  /\ queue_fill_data = [pr \in Priorities |-> <<>>]
  /\ ticks = 0
  /\ counted = [p \in ProcIds |-> 0]
  /\ rr_rounds = [p \in ProcIds |-> 0]
  /\ handed = [p \in ProcIds |-> 0]
  /\ started = <<>>
  /\ sjf_last = [before |-> <<>>, selected |-> None, after |-> <<>>]
  /\ slept = [c \in Cpus |-> 0]
  /\ feeder_slept = 0
  /\ new_process_count = [pr \in Priorities |-> 0]
  /\ timestamps = [pr \in Priorities |-> <<>>]
  /\ wait_times = [pr \in Priorities |-> <<>>]
  /\ clock = 0
  /\ raised = <<>>
  /\ average_wait = <<>>
  /\ execution_times = [c \in Cpus |-> <<>>]
  /\ enq_stamp = [p \in ProcIds |-> 0]
  /\ aligned = TRUE
  /\ calls = <<>>
  /\ cpu_time = [p \in ProcIds |-> 0]

\* the scheduler constructed with freely chosen arguments, each given for the
\* parameter of its name
Init ==
  /\ mode \in {"static", "dynamic"}
  /\ num_cpus \in 1 .. MaxCpus
  /\ total_processes \in 0 .. (IF mode = "static" THEN MaxProcs ELSE MaxArrivals)
  /\ time_quantum \in 1 .. MaxQuantum
  /\ time_quantum_arg = time_quantum
  /\ cpu_burst_time \in 1 .. MaxSlice
  /\ default_burst \in 1 .. MaxBurst
  /\ (mode = "static" => default_burst = 1)
  /\ use_random_interactive_burst \in BOOLEAN
  /\ interactive_burst_time_range \in {<<lo, MaxBurst>> : lo \in 1 .. MinBurstLimit}
  /\ (mode = "static" =>
        use_random_interactive_burst /\ interactive_burst_time_range[1] = 1)
  /\ (~use_random_interactive_burst => interactive_burst_time_range[1] = MinBurstLimit)
  /\ Constructed

\* the parameters of MultiLevelQueueScheduler.__init__ in their order, and
\* the defaults of those that have one
Parameters ==
  <<"num_cpus", "total_processes", "speedup_simulation", "time_quantum", "burst_time">>

Defaults == [speedup_simulation |-> 1, time_quantum |-> 2, burst_time |-> 3]

\* no keyword argument
NoKeywords == [name \in {} |-> 0]

\* a call of MultiLevelQueueScheduler: a positional argument goes to the
\* parameter of its position, a keyword argument to the one of its name, and
\* a parameter without argument has its default
MultiLevelQueueScheduler(positional, keywords) ==
  [name \in {Parameters[i] : i \in DOMAIN Parameters} |->
     LET i == CHOOSE k \in DOMAIN Parameters : Parameters[k] = name
     IN IF i <= Len(positional) THEN positional[i]
        ELSE IF name \in DOMAIN keywords THEN keywords[name]
        ELSE Defaults[name]]

\* the call of run_simulation_dynamic, app.py line 24
scheduler_dynamic(cpus, total, speedup_simulation, burst_time, quantum) ==
  MultiLevelQueueScheduler(<<cpus, total, speedup_simulation, burst_time, quantum>>,
                           NoKeywords)

\* the call of run_simulation_static, app.py line 44
scheduler_static(cpus, total, speedup_simulation, quantum) ==
  MultiLevelQueueScheduler(<<cpus, total, speedup_simulation>>,
                           [time_quantum |-> quantum])

\* the scheduler constructed by run_simulation_dynamic or run_simulation_static
\* from the arguments of the caller
InitApp ==
  /\ mode \in {"static", "dynamic"}
  /\ \E cpus \in 1 .. MaxCpus, total \in 0 .. MaxProcs,
        quantum \in 1 .. MaxQuantum, burst_time \in 1 .. MaxBurst :
       /\ total <= (IF mode = "static" THEN MaxProcs ELSE MaxArrivals)
       /\ mode = "static" => burst_time = 1
       /\ \E scheduler \in {IF mode = "dynamic"
                               THEN scheduler_dynamic(cpus, total, 1, burst_time, quantum)
                             ELSE scheduler_static(cpus, total, 1, quantum)} :
            /\ num_cpus = scheduler.num_cpus
            /\ total_processes = scheduler.total_processes
            /\ time_quantum = scheduler.time_quantum
            /\ cpu_burst_time = scheduler.burst_time
       /\ time_quantum_arg = quantum
       /\ default_burst = burst_time
  /\ use_random_interactive_burst \in BOOLEAN
  /\ interactive_burst_time_range \in {<<lo, MaxBurst>> : lo \in 1 .. MinBurstLimit}
  /\ (mode = "static" =>
        use_random_interactive_burst /\ interactive_burst_time_range[1] = 1)
  /\ (~use_random_interactive_burst => interactive_burst_time_range[1] = MinBurstLimit)
  /\ Constructed

\* ---------------------------------------------------------- ProcessQueue
\* ProcessQueue.add_process: the process goes to the tail of the queue,
\* the counter of the queue grows and the time is appended to its timestamps
add_process(s, pr, p) ==
  [s EXCEPT !.queue[pr] = Append(@, p),
            !.new_process_count[pr] = @ + 1,
            !.clock = @ + 1,
            !.timestamps[pr] = Append(@, s.clock + 1),
            !.enq_stamp[p] = s.clock + 1]

\* get_process popping the last timestamp instead of the first
get_process_PopsLast(s, pr) ==
  [s |-> [s EXCEPT !.queue[pr] = Tail(@),
                   !.clock = @ + 1,
                   !.timestamps[pr] = SubSeq(@, 1, Len(@) - 1),
                   !.wait_times[pr] =
                      Append(@, s.clock + 1 - s.timestamps[pr][Len(s.timestamps[pr])]),
                   !.aligned = @ /\ s.timestamps[pr][Len(s.timestamps[pr])]
                                      = s.enq_stamp[Head(s.queue[pr])]],
   process |-> Head(s.queue[pr])]

\* ProcessQueue.get_process on a non-empty queue: the head leaves the queue,
\* the first timestamp is popped and the time since then is a wait sample
get_process(s, pr) ==
  [s |-> [s EXCEPT !.queue[pr] = Tail(@),
                   !.clock = @ + 1,
                   !.timestamps[pr] = Tail(@),
                   !.wait_times[pr] = Append(@, s.clock + 1 - Head(s.timestamps[pr])),
                   !.aligned = @ /\ Head(s.timestamps[pr]) = s.enq_stamp[Head(s.queue[pr])]],
   process |-> Head(s.queue[pr])]

\* ProcessQueue.is_empty
is_empty(s, pr) == s.queue[pr] = <<>>

\* Process.__init__
Process(pr, burst) == [burst_time |-> burst, remaining_time |-> burst, priority |-> pr]

\* ------------------------------------------------------------ submission
\* schedule_process adding the process of an unknown priority level to the
\* last queue
schedule_process_DefaultsToLast(pr, burst) ==
  /\ calls' = Append(calls, pr)
  /\ \E s \in {add_process(
                  [self EXCEPT !.procs =
                     Append(@, Process(IF pr \in DOMAIN queue THEN pr ELSE "Low Priority",
                                       burst))],
                  IF pr \in DOMAIN queue THEN pr ELSE "Low Priority",
                  Len(procs) + 1)} :
       /\ procs' = s.procs
       /\ queue' = s.queue
       /\ new_process_count' = s.new_process_count
       /\ timestamps' = s.timestamps
       /\ clock' = s.clock
       /\ enq_stamp' = s.enq_stamp
  /\ UNCHANGED <<raised, wait_times, aligned>>

\* MultiLevelQueueScheduler.schedule_process: a new Process at the tail of
\* the queue of its priority level; the lookup of a priority that is no key
\* of self.queues raises KeyError before any queue is touched
schedule_process(pr, burst) ==
  /\ calls' = Append(calls, pr)
  /\ IF pr \in DOMAIN queue
       THEN /\ \E s \in {add_process([self EXCEPT !.procs = Append(@, Process(pr, burst))],
                                     pr, Len(procs) + 1)} :
                 /\ procs' = s.procs
                 /\ queue' = s.queue
                 /\ new_process_count' = s.new_process_count
                 /\ timestamps' = s.timestamps
                 /\ clock' = s.clock
                 /\ enq_stamp' = s.enq_stamp
            /\ UNCHANGED <<raised, wait_times, aligned>>
     ELSE /\ raised' = Append(raised, pr)
          /\ UNCHANGED <<procs, queue, queue_books>>

\* the burst time app.py and add_processes give a process: a random one of
\* the range for an Interactive process when the flag is set
BurstTimes(pr, fixed) ==
  IF pr = "Interactive" /\ use_random_interactive_burst
    THEN interactive_burst_time_range[1] .. interactive_burst_time_range[2]
  ELSE {fixed}

\* run_simulation_static: the queues are filled before run_scheduler starts,
\* level by level in the order of the settings, every process of a level
\* with the burst time of the level (Interactive: possibly a random one)
run_simulation_static(pr, burst) ==
  /\ mode = "static"
  /\ pc = "loading"
  /\ Len(procs) < total_processes
  /\ (procs # <<>> /\ pr \in Priorities) =>
       LET last == procs[Len(procs)]
       IN /\ PriorityIndex(last.priority) <= PriorityIndex(pr)
          /\ (last.priority = pr /\ pr # "Interactive") => burst = last.burst_time
  /\ burst \in BurstTimes(pr, burst)
  /\ schedule_process(pr, burst)
  /\ pc' = IF raised' # raised THEN "failed"
           ELSE IF Len(procs) + 1 = total_processes THEN "running" ELSE "loading"
  /\ UNCHANGED <<config, is_free, running, completed_process_count,
                 completed_processes, cpu_usage_data, queue_fill_data, ticks,
                 counted, rr_rounds, handed, started, sjf_last, slept, feeder_slept,
                 average_wait, execution_times, cpu_time>>

\* add_processes drawing a random burst time for every priority level
add_processes_RandomForAll(pr, burst) ==
  /\ mode = "dynamic"
  /\ pc = "running"
  /\ Len(procs) < total_processes
  /\ burst \in IF use_random_interactive_burst
                THEN interactive_burst_time_range[1] .. interactive_burst_time_range[2]
              ELSE {default_burst}
  /\ schedule_process(pr, burst)
  /\ feeder_slept' = 0
  /\ UNCHANGED <<config, pc, is_free, running, completed_process_count,
                 completed_processes, cpu_usage_data, queue_fill_data, ticks,
                 counted, rr_rounds, handed, started, sjf_last, slept,
                 average_wait, execution_times, cpu_time>>

\* add_processes: one iteration of the feeder task, which runs concurrently
\* with the loop of run_scheduler
add_processes(pr, burst) ==
  /\ mode = "dynamic"
  /\ pc = "running"
  /\ Len(procs) < total_processes
  /\ burst \in BurstTimes(pr, default_burst)
  /\ schedule_process(pr, burst)
  /\ feeder_slept' = 0
  /\ UNCHANGED <<config, pc, is_free, running, completed_process_count,
                 completed_processes, cpu_usage_data, queue_fill_data, ticks,
                 counted, rr_rounds, handed, started, sjf_last, slept,
                 average_wait, execution_times, cpu_time>>

\* ------------------------------------------------- selection algorithms
\* what a selection returns: the state it leaves and the process, or None
Selected(s, p) == [s |-> s, process |-> p]

\* the first get_rr_process call that returns the process is remembered
NoteRound(s, p, returned) ==
  IF s.handed[p] # 0 THEN s
  ELSE [s EXCEPT !.rr_rounds[p] = @ + 1,
                 !.handed[p] = IF returned THEN s.rr_rounds[p] + 1 ELSE 0]

\* get_rr_process comparing the remaining time with < instead of <=
get_rr_process_Strict(s, pr) ==
  LET got == get_process(s, pr)
      p == got.process
      remaining == got.s.procs[p].remaining_time
      time_to_run == Min(remaining, time_quantum)
  IN IF remaining < time_quantum
       THEN Selected(NoteRound(got.s, p, TRUE), p)
     ELSE Selected(
            add_process(
              [NoteRound(got.s, p, FALSE)
                 EXCEPT !.procs[p].remaining_time = @ - time_to_run],
              pr, p),
            None)

\* get_rr_process counting a process it adds to the queue again as completed
get_rr_process_CountsRequeue(s, pr) ==
  LET got == get_process(s, pr)
      p == got.process
      remaining == got.s.procs[p].remaining_time
  IN IF remaining <= time_quantum
       THEN Selected(NoteRound(got.s, p, TRUE), p)
     ELSE Selected(
            add_process(
              [NoteRound(got.s, p, FALSE)
                 EXCEPT !.procs[p].remaining_time = @ - time_quantum,
                        !.completed_processes = @ + 1,
                        !.counted[p] = @ + 1],
              pr, p),
            None)

\* MultiLevelQueueScheduler.get_rr_process
get_rr_process(s, pr) ==
  CHOOSE r \in
    {LET p == got.process
         remaining == got.s.procs[p].remaining_time
         time_to_run == Min(remaining, time_quantum)
     IN IF remaining <= time_quantum
          THEN Selected(NoteRound(got.s, p, TRUE), p)
        ELSE IF remaining > 0
          THEN Selected(
                 add_process(
                   [NoteRound(got.s, p, FALSE)
                      EXCEPT !.procs[p].remaining_time = @ - time_to_run],
                   pr, p),
                 None)
        ELSE Selected(
               [NoteRound(got.s, p, TRUE)
                  EXCEPT !.completed_processes = @ + 1, !.counted[p] = @ + 1],
               p) :
       got \in {get_process(s, pr)}} : TRUE

\* a sort that puts x in front of the elements of equal burst time
RECURSIVE InsertByBurst_Unstable(_, _, _)
InsertByBurst_Unstable(ps, sorted, x) ==
  IF sorted = <<>> THEN <<x>>
  ELSE IF ps[Head(sorted)].burst_time < ps[x].burst_time
    THEN <<Head(sorted)>> \o InsertByBurst_Unstable(ps, Tail(sorted), x)
  ELSE <<x>> \o sorted

\* list.sort(key=burst_time) is stable: x goes behind every element whose
\* burst time is not larger
RECURSIVE InsertByBurst(_, _, _)
InsertByBurst(ps, sorted, x) ==
  IF sorted = <<>> THEN <<x>>
  ELSE IF ps[Head(sorted)].burst_time <= ps[x].burst_time
    THEN <<Head(sorted)>> \o InsertByBurst(ps, Tail(sorted), x)
  ELSE <<x>> \o sorted

RECURSIVE SortByBurst(_, _)
SortByBurst(ps, processes) ==
  IF processes = <<>> THEN <<>>
  ELSE InsertByBurst(ps,
         SortByBurst(ps, SubSeq(processes, 1, Len(processes) - 1)),
         processes[Len(processes)])

\* get_sjf_process, line 262: get_process for every process of the queue
RECURSIVE GetAll(_, _, _)
GetAll(s, pr, processes) ==
  IF is_empty(s, pr) THEN [s |-> s, processes |-> processes]
  ELSE CHOOSE r \in {GetAll(got.s, pr, Append(processes, got.process)) :
                       got \in {get_process(s, pr)}} : TRUE

\* get_sjf_process, lines 271-273: add_process for the processes of the list
RECURSIVE AddAll(_, _, _)
AddAll(s, pr, processes) ==
  IF processes = <<>> THEN s
  ELSE CHOOSE r \in {AddAll(t, pr, Tail(processes)) :
                       t \in {add_process(s, pr, Head(processes))}} : TRUE

\* the call of get_sjf_process is remembered
NoteSjf(s, before, selected, after) ==
  [s EXCEPT !.sjf_last = [before |-> before, selected |-> selected, after |-> after]]

\* get_sjf_process adding the other processes again in the order they had
get_sjf_process_KeepsOrder(s, pr) ==
  LET processes == SortByBurst(s.procs, s.queue[pr])
      readded == SelectSeq(s.queue[pr], LAMBDA x : x # processes[1])
  IN IF processes = <<>> THEN Selected(s, None)
     ELSE Selected(
            NoteSjf(AddAll(GetAll(s, pr, <<>>).s, pr, readded),
                    s.queue[pr], processes[1], readded),
            processes[1])

\* get_sjf_process adding every process again, the selected one too
get_sjf_process_ReaddsAll(s, pr) ==
  LET processes == SortByBurst(s.procs, s.queue[pr])
  IN IF processes = <<>> THEN Selected(s, None)
     ELSE Selected(
            NoteSjf(AddAll(GetAll(s, pr, <<>>).s, pr, processes),
                    s.queue[pr], processes[1], processes),
            processes[1])

\* MultiLevelQueueScheduler.get_sjf_process: the queue is drained, the list
\* sorted, and every process but the first of the sorted list is added
\* again, in the order of the sorted list
get_sjf_process(s, pr) ==
  CHOOSE r \in
    {IF sjf.processes = <<>> THEN Selected(sjf.s, None)
     ELSE Selected(
            NoteSjf(AddAll(sjf.s, pr, sjf.readded),
                    sjf.before, sjf.processes[1], sjf.readded),
            sjf.processes[1]) :
       sjf \in {[s |-> sorted.s, before |-> sorted.before,
                 processes |-> sorted.processes,
                 readded |-> SelectSeq(sorted.processes,
                                       LAMBDA x : x # sorted.processes[1])] :
                  sorted \in {[s |-> drained.s, before |-> drained.before,
                               processes |-> SortByBurst(drained.s.procs,
                                                         drained.processes)] :
                               drained \in {[before |-> got.s.queue[pr], s |-> got.t.s,
                                             processes |-> got.t.processes] :
                                              got \in {[s |-> u, t |-> GetAll(u, pr, <<>>)] :
                                                        u \in {s}}}}}} : TRUE

\* run_scheduler, lines 178-184: the selection of the queue's algorithm
Select(s, pr) ==
  CASE algorithm[pr] = "Round Robin" -> get_rr_process(s, pr)
    [] algorithm[pr] = "FIFO" -> get_process(s, pr)
    [] algorithm[pr] = "SJF" -> get_sjf_process(s, pr)

\* ------------------------------------------------------------- the loop
\* the dispatch taking the free CPU of the highest index
Dispatch_LastFree(s, pr, p) ==
  LET free == {c \in Cpus : s.is_free[c]}
  IN IF free # {}
       THEN LET available_cpu == CHOOSE c \in free : \A d \in free : c >= d
            IN [s EXCEPT !.is_free[available_cpu] = FALSE,
                         !.running[available_cpu] = p,
                         !.started = Append(@, p)]
     ELSE add_process(s, pr, p)

\* the dispatch putting the process at the head of its queue when no CPU is free
Dispatch_RequeuesAtHead(s, pr, p) ==
  LET free == {c \in Cpus : s.is_free[c]}
  IN IF free # {}
       THEN LET available_cpu == CHOOSE c \in free : \A d \in free : c <= d
            IN [s EXCEPT !.is_free[available_cpu] = FALSE,
                         !.running[available_cpu] = p,
                         !.started = Append(@, p)]
     ELSE [s EXCEPT !.queue[pr] = <<p>> \o @,
                    !.new_process_count[pr] = @ + 1,
                    !.clock = @ + 1,
                    !.timestamps[pr] = <<s.clock + 1>> \o @,
                    !.enq_stamp[p] = s.clock + 1]

\* the dispatch giving the process to the first CPU, free or not
Dispatch_IgnoresBusy(s, pr, p) ==
  [s EXCEPT !.is_free[0] = FALSE,
            !.running[0] = p,
            !.started = Append(@, p)]

\* run_scheduler, lines 186-192: the first free CPU of the pool takes the
\* process and an execute_and_count task is created for it; without a free
\* CPU the process is added to its queue again
Dispatch(s, pr, p) ==
  LET free == {c \in Cpus : s.is_free[c]}
  IN IF free # {}
       THEN LET available_cpu == CHOOSE c \in free : \A d \in free : c <= d
            IN [s EXCEPT !.is_free[available_cpu] = FALSE,
                         !.running[available_cpu] = p,
                         !.started = Append(@, p)]
     ELSE add_process(s, pr, p)

\* the usage sample being 1 for a free CPU
SampleCpus_Inverted(s) ==
  [s EXCEPT !.cpu_usage_data =
     [c \in Cpus |-> Append(s.cpu_usage_data[c], IF s.is_free[c] THEN 1 ELSE 0)]]

\* run_scheduler, lines 194-195: one usage sample for every CPU
SampleCpus(s) ==
  [s EXCEPT !.cpu_usage_data =
     [c \in Cpus |-> Append(s.cpu_usage_data[c], IF s.is_free[c] THEN 0 ELSE 1)]]

\* the body of the for loop taking the usage samples before the selection
VisitQueue_SamplesFirst(s, pr) ==
  IF ~is_empty(s, pr)
    THEN CHOOSE r \in
           {IF sel.process # None
              THEN Dispatch(sel.s, pr, sel.process)
            ELSE sel.s :
              sel \in {Select(u, pr) :
                        u \in {SampleCpus([s EXCEPT !.all_empty = FALSE])}}} : TRUE
  ELSE SampleCpus(s)

\* run_scheduler, lines 173-195: the body of the for loop for one queue;
\* the usage samples are taken inside the loop over the queues
VisitQueue(s, pr) ==
  IF ~is_empty(s, pr)
    THEN CHOOSE r \in
           {SampleCpus(t) :
              t \in {IF sel.process # None
                       THEN Dispatch(sel.s, pr, sel.process)
                     ELSE sel.s :
                       sel \in {Select(u, pr) :
                                 u \in {[s EXCEPT !.all_empty = FALSE]}}}} : TRUE
  ELSE SampleCpus(s)

\* the for loop visiting the queues in the reverse order
RECURSIVE VisitQueues_Reversed(_, _)
VisitQueues_Reversed(s, i) ==
  IF i > Len(PriorityOrder) THEN s
  ELSE CHOOSE r \in {VisitQueues_Reversed(t, i + 1) :
                       t \in {VisitQueue(s, PriorityOrder[Len(PriorityOrder) + 1 - i])}} : TRUE

\* run_scheduler, line 173: the for loop over the queues, in the order of
\* the dictionary; t is the state the body leaves for the next queue
RECURSIVE VisitQueues(_, _)
VisitQueues(s, i) ==
  IF i > Len(PriorityOrder) THEN s
  ELSE CHOOSE r \in {VisitQueues(t, i + 1) : t \in {VisitQueue(s, PriorityOrder[i])}} : TRUE

\* run_scheduler, lines 197-198: one length sample for every queue
SampleQueues(s) ==
  [pr \in Priorities |-> Append(queue_fill_data[pr], Len(s.queue[pr]))]

\* the mean of numpy as the fraction <<sum, number of samples>>; the mean of
\* no sample is 0/0
RECURSIVE Sum(_)
Sum(samples) == IF samples = <<>> THEN 0 ELSE Head(samples) + Sum(Tail(samples))

mean(samples) == <<Sum(samples), Len(samples)>>

\* the number 0 as a fraction
Zero == <<0, 1>>

\* average_wait_times taking the mean of every queue, with or without samples
average_wait_times_Unguarded(s) ==
  [pr \in Priorities |-> mean(s.wait_times[pr])]

\* MultiLevelQueueScheduler.average_wait_times
average_wait_times(s) ==
  [pr \in Priorities |->
     IF s.wait_times[pr] # <<>> THEN mean(s.wait_times[pr]) ELSE Zero]

\* the loop ending as soon as it has seen every queue empty
LoopEnds_IgnoresCount(s) == s.all_empty

\* run_scheduler, line 200: the loop ends
LoopEnds(s) == s.all_empty /\ s.completed_processes = total_processes

\* run_scheduler, lines 171-204: one iteration of the loop.  It runs only
\* when no sleep of a CPU task or of the feeder is overdue.
Tick ==
  /\ pc = "running"
  /\ \A c \in Cpus : ~is_free[c] => slept[c] < MaxSliceTicks
  /\ (mode = "dynamic" /\ Len(procs) < total_processes) => feeder_slept < MaxArrivalTicks
  /\ \E s \in {VisitQueues(t, 1) : t \in {self}} :
        /\ Store(s)
        /\ queue_fill_data' = SampleQueues(s)
        /\ pc' = IF LoopEnds(s) THEN "finished" ELSE "running"
        /\ average_wait' = IF LoopEnds(s) THEN average_wait_times(s) ELSE average_wait
  /\ ticks' = ticks + 1
  /\ slept' = [c \in Cpus |-> IF is_free[c] THEN 0 ELSE slept[c] + 1]
  /\ feeder_slept' = IF mode = "dynamic" /\ Len(procs) < total_processes
                       THEN feeder_slept + 1 ELSE 0
  /\ UNCHANGED <<config, completed_process_count, execution_times, cpu_time, raised,
                 calls>>

\* --------------------------------------------------------------- the CPU
\* the slice being the slice limit of the CPU, whatever remains
process_time_WholeSlice(p) == cpu_burst_time

\* CPU.execute_process: the slice the CPU runs for the process
process_time(p) == Min(procs[p].remaining_time, cpu_burst_time)

\* execute_process leaving the CPU marked busy when the execution is over
execute_and_count_KeepsBusy(cpu) ==
  /\ running[cpu] # None
  /\ LET p == running[cpu]
     IN /\ procs' = [procs EXCEPT ![p].remaining_time = @ - process_time(p)]
        /\ execution_times' = [execution_times EXCEPT ![cpu] = Append(@, process_time(p))]
        /\ cpu_time' = [cpu_time EXCEPT ![p] = @ + process_time(p)]
        /\ counted' = [counted EXCEPT ![p] = @ + 1]
  /\ completed_process_count' = [completed_process_count EXCEPT ![cpu] = @ + 1]
  /\ completed_processes' = completed_processes + 1
  /\ running' = [running EXCEPT ![cpu] = None]
  /\ slept' = [slept EXCEPT ![cpu] = 0]
  /\ UNCHANGED <<config, pc, queue, is_free, cpu_usage_data, queue_fill_data,
                 ticks, rr_rounds, handed, started, sjf_last, feeder_slept,
                 queue_books, raised, average_wait, calls>>

\* CPU.execute_process after its sleep, then the line of execute_and_count
\* that follows it
execute_and_count(cpu) ==
  /\ running[cpu] # None
  /\ LET p == running[cpu]
     IN /\ procs' = [procs EXCEPT ![p].remaining_time = @ - process_time(p)]
        /\ execution_times' = [execution_times EXCEPT ![cpu] = Append(@, process_time(p))]
        /\ cpu_time' = [cpu_time EXCEPT ![p] = @ + process_time(p)]
        /\ counted' = [counted EXCEPT ![p] = @ + 1]
  /\ is_free' = [is_free EXCEPT ![cpu] = TRUE]
  /\ completed_process_count' = [completed_process_count EXCEPT ![cpu] = @ + 1]
  /\ completed_processes' = completed_processes + 1
  /\ running' = [running EXCEPT ![cpu] = None]
  /\ slept' = [slept EXCEPT ![cpu] = 0]
  /\ UNCHANGED <<config, pc, queue, cpu_usage_data, queue_fill_data, ticks,
                 rr_rounds, handed, started, sjf_last, feeder_slept,
                 queue_books, raised, average_wait, calls>>

\* --------------------------------------------------------- specification
Next ==
  \/ \E pr \in Priorities, burst \in 1 .. MaxBurst : run_simulation_static(pr, burst)
  \/ \E pr \in Priorities, burst \in 1 .. MaxBurst : add_processes(pr, burst)
  \/ Tick
  \/ \E cpu \in Cpus : execute_and_count(cpu)

Spec == Init /\ [][Next]_vars

\* the asyncio event loop keeps running a task while one is ready; how long
\* the sleeping tasks may take relative to the loop is in the guards of Tick
FairSpec == Spec /\ WF_vars(Next)

\* a priority level that is no key of self.queues
UnknownPriority == "Unknown"

\* the program with process settings that may name an unknown priority level
NextApi ==
  \/ Next
  \/ \E burst \in 1 .. MaxBurst : run_simulation_static(UnknownPriority, burst)

ApiSpec == Init /\ [][NextApi]_vars

\* the program as src/app.py runs it
AppSpec == InitApp /\ [][Next]_vars

\* ============================================================== claims
Submitted == 1 .. Len(procs)

\* how often the process occurs in the sequence
Occurrences(seq, p) == Cardinality({i \in DOMAIN seq : seq[i] = p})

\* the holders of the process: its places in the queues and the CPUs whose
\* task executes it
Holders(p) ==
  Cardinality({pr \in Priorities : Occurrences(queue[pr], p) = 1})
    + 2 * Cardinality({pr \in Priorities : Occurrences(queue[pr], p) > 1})
    + Cardinality({c \in Cpus : running[c] = p})

AllQueuesEmpty == \A pr \in Priorities : queue[pr] = <<>>

\* C1: when run_scheduler has returned, completed_processes equals the
\* number of submitted processes, which is total_processes, and every
\* submitted process has been counted as completed exactly once.
C1_CompletedExactlyOnce ==
  pc = "finished" =>
    /\ Len(procs) = total_processes
    /\ completed_processes = Len(procs)
    /\ \A p \in Submitted : counted[p] = 1

\* a run of several processes, one of them re-queued by Round Robin, has returned
C1_Witness ==
  /\ pc = "finished"
  /\ Len(procs) >= 2
  /\ \E p \in Submitted : rr_rounds[p] >= 2

\* C2: a process is counted as completed only when its remaining time is
\* 0, and a process whose CPU execution ended with remaining time left is
\* back in the queue of its priority level (or on a CPU again), not counted.
C2_CountedOnlyWhenDone ==
  \A p \in Submitted :
    /\ counted[p] > 0 => procs[p].remaining_time = 0
    /\ procs[p].remaining_time > 0 =>
         \/ Occurrences(queue[procs[p].priority], p) = 1
         \/ \E c \in Cpus : running[c] = p

\* C3: after N iterations of the loop every usage history and every queue
\* length history has exactly N entries.
C3_HistoryLengths ==
  /\ \A c \in Cpus : Len(cpu_usage_data[c]) = ticks
  /\ \A pr \in Priorities : Len(queue_fill_data[pr]) = ticks

\* C4: with every submitted process counted in total_processes, and under
\* fair scheduling of the loop, the feeder and the CPU tasks, run_scheduler
\* eventually returns.
C4_Terminates == <>(pc = "finished")

\* a run fed by the concurrent feeder, with a Round Robin re-queue, has returned
C4_Witness ==
  /\ pc = "finished"
  /\ mode = "dynamic"
  /\ Len(procs) = MaxArrivals
  /\ \E p \in Submitted : rr_rounds[p] >= 2 /\ p \in {started[i] : i \in DOMAIN started}

\* C5: an iteration of the loop ends the run if and only if, at its end,
\* every queue is empty and completed_processes = total_processes; a run
\* that has ended holds no process in a queue or on a CPU; nothing but an
\* iteration of the loop ends the run; and no iteration follows the end.
C5_FinishedIff ==
  [][/\ ticks' # ticks =>
          (pc' = "finished" <=>
             AllQueuesEmpty' /\ completed_processes' = total_processes')
     /\ pc' = "finished" =>
          AllQueuesEmpty' /\ \A c \in Cpus : running'[c] = None /\ is_free'[c]
     /\ (pc # "finished" /\ pc' = "finished") => ticks' = ticks + 1
     /\ pc = "finished" => ticks' = ticks
    ]_vars

\* the run has ended after iterations that did not end it although every
\* queue was empty (a CPU was still executing)
C5_Witness ==
  /\ pc = "finished"
  /\ total_processes >= 1
  /\ \E pr \in Priorities : \E i \in DOMAIN queue_fill_data[pr] :
       /\ i < Len(queue_fill_data[pr])
       /\ \A qr \in Priorities : queue_fill_data[qr][i] = 0

\* C6: a process has at most one holder: it is at most once in all queues
\* together, or on exactly one CPU, never both.
C6_SingleOwner == \A p \in Submitted : Holders(p) <= 1

\* a process is on a CPU while the SJF queue, after a selection that
\* drained it, holds another one and a Round Robin process was re-queued
C6_Witness ==
  /\ \E c \in Cpus : running[c] # None
  /\ sjf_last.selected # None /\ Len(sjf_last.before) >= 2
  /\ queue["Interactive"] # <<>>
  /\ \E p \in Submitted : rr_rounds[p] >= 1 /\ handed[p] = 0

\* the place of the process in the sequence
IndexIn(seq, p) == CHOOSE i \in DOMAIN seq : seq[i] = p

Elements(seq) == {seq[i] : i \in DOMAIN seq}

\* C7: an SJF selection returns a process of the queue whose original
\* burst time is the smallest, the earliest in the queue among those with
\* that burst time; afterwards every other process of the queue is in the
\* queue again, once, and the returned one is not.
C7_SjfSelectsShortest ==
  sjf_last.selected # None =>
    LET before == sjf_last.before
        sel == sjf_last.selected
    IN /\ sel \in Elements(before)
       /\ \A i \in DOMAIN before :
            /\ procs[before[i]].burst_time >= procs[sel].burst_time
            /\ procs[before[i]].burst_time = procs[sel].burst_time =>
                 IndexIn(before, sel) <= i
       /\ Elements(sjf_last.after) = Elements(before) \ {sel}
       /\ Len(sjf_last.after) = Len(before) - 1

\* a selection among three processes, two of them with the smallest burst
\* time, the first of the queue with a larger one
C7_Witness ==
  /\ Len(sjf_last.before) = 3
  /\ procs[sjf_last.before[1]].burst_time > procs[sjf_last.selected].burst_time
  /\ \E i \in DOMAIN sjf_last.before :
       /\ sjf_last.before[i] # sjf_last.selected
       /\ procs[sjf_last.before[i]].burst_time = procs[sjf_last.selected].burst_time

\* the processes an SJF selection did not select, in the order they had
\* before it
KeptOrder == SelectSeq(sjf_last.before, LAMBDA x : x # sjf_last.selected)

\* C8 as stated: after an SJF selection the processes that were not
\* selected are in the queue in the relative order they had before it.
C8_OrderPreserved == sjf_last.selected # None => sjf_last.after = KeptOrder

\* C8 as amended: after an SJF selection the processes that were not
\* selected are in the queue in ascending order of original burst time,
\* those of equal burst time in the relative order they had before it.
C8_OrderedByBurst ==
  sjf_last.selected # None =>
    \A i, j \in DOMAIN sjf_last.after :
      i < j =>
        LET a == sjf_last.after[i]
            b == sjf_last.after[j]
        IN /\ procs[a].burst_time <= procs[b].burst_time
           /\ procs[a].burst_time = procs[b].burst_time =>
                IndexIn(sjf_last.before, a) < IndexIn(sjf_last.before, b)

\* a selection after which the other processes have changed places
C8_Witness ==
  /\ sjf_last.selected # None
  /\ Len(sjf_last.after) >= 2
  /\ sjf_last.after # KeptOrder

\* the Round Robin processes
RoundRobin == {p \in Submitted : algorithm[procs[p].priority] = "Round Robin"}

\* the number of selection rounds of a burst time b with quantum q
Rounds(b, q) == (b + q - 1) \div q

\* the processes given to a CPU in this step
NewlyStarted == {started'[i] : i \in (Len(started) + 1) .. Len(started')}

\* C9: a Round Robin selection of a process with remaining time r hands
\* the process to CPU assignment if r <= time_quantum; otherwise it takes
\* exactly time_quantum from r, puts the process at the tail of the same
\* queue and nothing of that queue is given to a CPU in that iteration.
\* So a process of burst time b is first handed to CPU assignment at its
\* ceil(b / time_quantum)-th selection, after a re-queue when
\* b > time_quantum.
C9_RoundRobin ==
  /\ [](\A p \in RoundRobin :
          LET b == procs[p].burst_time
              r == procs[p].remaining_time
          IN /\ handed[p] # 0 =>
                  /\ handed[p] = Rounds(b, time_quantum)
                  /\ rr_rounds[p] = handed[p]
                  /\ b > time_quantum => rr_rounds[p] >= 2
                  /\ counted[p] = 0 =>
                       r = b - (handed[p] - 1) * time_quantum /\ r <= time_quantum
             /\ handed[p] = 0 =>
                  /\ rr_rounds[p] < Rounds(b, time_quantum)
                  /\ r = b - rr_rounds[p] * time_quantum
                  /\ Occurrences(queue[procs[p].priority], p) = 1
                  /\ counted[p] = 0)
  /\ [][\A p \in RoundRobin :
          LET pr == procs[p].priority
          IN /\ (rr_rounds'[p] = rr_rounds[p] + 1 /\ handed'[p] = 0) =>
                  /\ procs[p].remaining_time > time_quantum
                  /\ procs'[p].remaining_time = procs[p].remaining_time - time_quantum
                  /\ queue'[pr][Len(queue'[pr])] = p
                  /\ \A x \in NewlyStarted : procs[x].priority # pr
             /\ (handed[p] = 0 /\ handed'[p] # 0) =>
                  /\ procs[p].remaining_time <= time_quantum
                  /\ procs'[p].remaining_time = procs[p].remaining_time
                  /\ \/ p \in NewlyStarted
                     \/ queue'[pr][Len(queue'[pr])] = p
    ]_vars

\* a process of burst time 3 was handed to CPU assignment in its third round
C9_Witness ==
  \E p \in RoundRobin :
    /\ procs[p].burst_time = 3
    /\ time_quantum = 1
    /\ handed[p] = 3
    /\ p \in Elements(started)

\* C10: of two processes of the same FIFO queue, the one that arrived
\* later never starts executing before the one that arrived earlier.
C10_FifoStartOrder ==
  \A a, b \in Submitted :
    (/\ a < b
     /\ procs[a].priority = procs[b].priority
     /\ algorithm[procs[a].priority] = "FIFO"
     /\ b \in Elements(started))
    => /\ a \in Elements(started)
       /\ IndexIn(started, a) < IndexIn(started, b)

\* the last element of a sequence
Last(seq) == seq[Len(seq)]

\* what a step leaves alone when it changes nothing of the queues, the
\* processes and the counters
QueuesUntouched ==
  UNCHANGED <<queue, procs, queue_books, completed_processes,
              completed_process_count, counted>>

\* C11: a schedule_process call with a priority that is no key of the queues
\* raises the lookup error of that key and leaves every queue, timestamp
\* list, counter and the completed count as they were; a call with a known
\* priority puts exactly one new process, its remaining time equal to its
\* burst time, at the tail of the queue of that priority and changes no
\* other queue
C11_ScheduleProcess ==
  [][IF calls' = calls
       THEN raised' = raised /\ Len(procs') = Len(procs)
     ELSE LET pr == Last(calls')
              p == Len(procs) + 1
          IN /\ Len(calls') = Len(calls) + 1
             /\ IF pr \in Priorities
                  THEN /\ raised' = raised
                       /\ Len(procs') = p
                       /\ \A q \in Submitted : procs'[q] = procs[q]
                       /\ procs'[p].remaining_time = procs'[p].burst_time
                       /\ queue' = [queue EXCEPT ![pr] = Append(@, p)]
                       /\ Len(timestamps'[pr]) = Len(timestamps[pr]) + 1
                       /\ \A o \in Priorities \ {pr} : timestamps'[o] = timestamps[o]
                ELSE /\ raised' = Append(raised, pr)
                     /\ QueuesUntouched]_vars

C11_Witness ==
  /\ raised = <<UnknownPriority>>
  /\ pc = "failed"
  /\ Len(procs) = 2
  /\ Len(queue["System"]) = 2

\* C12: average_wait_times returns an entry for each of the five queues; the
\* entry of a queue without a wait sample is 0 and no division by zero
\* happens; a queue has a wait sample for every dequeue from it and no other,
\* and the entry of a queue with samples is their mean
C12_AverageWaitTimes ==
  /\ \A pr \in Priorities :
       /\ Len(wait_times[pr]) = new_process_count[pr] - Len(queue[pr])
       /\ new_process_count[pr] = 0 => wait_times[pr] = <<>>
  /\ pc = "finished" =>
       /\ DOMAIN average_wait = Priorities
       /\ \A pr \in Priorities :
            /\ average_wait[pr][2] # 0
            /\ wait_times[pr] = <<>> => average_wait[pr] = Zero
            /\ wait_times[pr] # <<>> =>
                 /\ average_wait[pr][1] = Sum(wait_times[pr])
                 /\ average_wait[pr][2] = new_process_count[pr] - Len(queue[pr])

C12_Witness ==
  /\ pc = "finished"
  /\ wait_times["Real Time"] = <<>>
  /\ new_process_count["Batch"] = 0
  /\ Len(wait_times["Interactive"]) = 3
  /\ Len(wait_times["System"]) = 2

\* every sample of the history is 0
AllZero(samples) == \A i \in DOMAIN samples : samples[i] = 0

\* C13: with a target of 0 and nothing submitted the loop runs its first
\* iteration and ends in it, without a second one; every usage history of a
\* CPU and every length history of a queue then has at least one sample and
\* only samples of 0, and every average wait time is 0
C13_EmptyRun ==
  (total_processes = 0 /\ procs = <<>>) =>
    /\ ticks <= 1
    /\ ticks = 0 => (pc = "running" /\ ENABLED Tick)
    /\ ticks = 1 =>
         /\ pc = "finished"
         /\ \A c \in Cpus : Len(cpu_usage_data[c]) >= 1 /\ AllZero(cpu_usage_data[c])
         /\ \A pr \in Priorities :
              /\ Len(queue_fill_data[pr]) >= 1 /\ AllZero(queue_fill_data[pr])
              /\ average_wait[pr] = Zero

C13_Witness ==
  /\ total_processes = 0
  /\ pc = "finished"
  /\ num_cpus = MaxCpus
  /\ mode = "dynamic"

\* the number of samples of the history that say busy
Busy(samples) == Cardinality({i \in DOMAIN samples : samples[i] = 1})

\* the number of processes the CPU was given
Dispatches(c) == completed_process_count[c] + (IF running[c] # None THEN 1 ELSE 0)

\* one CPU and three processes of burst time 1, all in one FIFO queue
ThreeFifo ==
  /\ num_cpus = 1
  /\ total_processes = 3
  /\ Len(procs) = 3
  /\ \E pr \in {q \in Priorities : algorithm[q] = "FIFO"} :
       \A p \in Submitted : procs[p].priority = pr /\ procs[p].burst_time = 1

\* whether the CPU executes a process when the k-th queue of an iteration
\* has been visited: it did before the iteration, or it was given its
\* process at the visit of one of the first k queues
ExecutingAfterVisit(c, k) ==
  \/ running[c] # None
  \/ /\ running'[c] # None
     /\ PriorityIndex(procs'[running'[c]].priority) <= k

\* C14: with one CPU and three processes of burst time 1 in a FIFO queue the
\* run ends, with completed_processes = 3 and at least 3 busy samples in the
\* usage history of the CPU; in general a usage sample is 1 exactly when the
\* CPU executes a process at the moment of the sample and 0 otherwise, and a
\* CPU has at least one busy sample for every process it was given
C14_UsageSamples ==
  /\ [](\A c \in Cpus :
          /\ \A i \in DOMAIN cpu_usage_data[c] : cpu_usage_data[c][i] \in {0, 1}
          /\ Busy(cpu_usage_data[c]) >= Dispatches(c))
  /\ []((ThreeFifo /\ pc = "finished") =>
          (completed_processes = 3 /\ Busy(cpu_usage_data[0]) >= 3))
  /\ [][ticks' # ticks =>
          \A c \in Cpus :
            \A k \in 1 .. (Len(cpu_usage_data'[c]) - Len(cpu_usage_data[c])) :
              cpu_usage_data'[c][Len(cpu_usage_data[c]) + k]
                = IF ExecutingAfterVisit(c, k) THEN 1 ELSE 0]_vars
  /\ (ThreeFifo ~> pc = "finished")

C14_Witness ==
  /\ ThreeFifo
  /\ pc = "finished"
  /\ completed_processes = 3
  /\ Busy(cpu_usage_data[0]) >= 3
  /\ procs[1].priority = "Batch"

\* the burst time of the process is one add_processes may give it
FeederBurst(p) ==
  IF procs[p].priority = "Interactive" /\ use_random_interactive_burst
    THEN /\ interactive_burst_time_range[1] <= procs[p].burst_time
         /\ procs[p].burst_time <= interactive_burst_time_range[2]
  ELSE procs[p].burst_time = default_burst

\* C15: add_processes submits the processes one at a time, never more than
\* total_processes of them and in the end exactly that many; each goes to
\* one of the five priority levels; a process of another level than
\* Interactive has the default burst time, an Interactive one a burst time
\* of the range when the flag is set and the default one otherwise
C15_Feeder ==
  /\ [](mode = "dynamic" =>
          /\ Len(procs) <= total_processes
          /\ Len(calls) = Len(procs)
          /\ \A p \in Submitted :
               /\ procs[p].priority \in Priorities
               /\ FeederBurst(p))
  /\ [][mode = "dynamic" =>
          /\ Len(procs') \in {Len(procs), Len(procs) + 1}
          /\ \A p \in Submitted :
               /\ procs'[p].priority = procs[p].priority
               /\ procs'[p].burst_time = procs[p].burst_time]_vars
  /\ (mode = "dynamic" ~> Len(procs) = total_processes)

C15_Witness ==
  /\ mode = "dynamic"
  /\ Len(procs) = total_processes
  /\ total_processes = MaxArrivals
  /\ use_random_interactive_burst
  /\ interactive_burst_time_range = <<2, MaxBurst>>
  /\ default_burst = 1
  /\ procs[1].priority = "Interactive" /\ procs[1].burst_time = MaxBurst
  /\ procs[2].priority = "Batch" /\ procs[2].burst_time = 1

\* C16: a CPU is busy (is_free is False) exactly while a process is given to
\* it and its execution has not ended; a busy CPU is not given a second
\* process; a CPU becomes free when, and only when, the execution of its
\* process ends, whether or not the process is finished then
C16_CpuBusy ==
  /\ [](\A c \in Cpus : is_free[c] <=> running[c] = None)
  /\ [][\A c \in Cpus :
          /\ running[c] # None => running'[c] \in {running[c], None}
          /\ (running[c] # None /\ running'[c] = None) =>
               /\ is_free'[c]
               /\ completed_process_count'[c] = completed_process_count[c] + 1
          /\ (~is_free[c] /\ is_free'[c]) =>
               /\ running'[c] = None
               /\ Len(execution_times'[c]) = Len(execution_times[c]) + 1]_vars

C16_Witness ==
  /\ num_cpus = MaxCpus
  /\ is_free[0]
  /\ ~is_free[1]
  /\ completed_process_count[0] = 1
  /\ \E p \in Submitted :
       counted[p] = 1 /\ procs[p].remaining_time > 0 /\ started[1] = p

\* C17: the timestamps of a queue are as many as its pending processes and
\* the i-th timestamp is the one recorded when the i-th pending process was
\* last added; every get_process has removed the timestamp of the process
\* it returned
C17_Timestamps ==
  /\ aligned
  /\ \A pr \in Priorities :
       /\ Len(timestamps[pr]) = Len(queue[pr])
       /\ \A i \in DOMAIN queue[pr] : timestamps[pr][i] = enq_stamp[queue[pr][i]]

C17_Witness ==
  /\ mode = "dynamic"
  /\ Len(queue["System"]) = 2
  /\ queue["System"][1] > queue["System"][2]
  /\ Len(wait_times["System"]) >= 2
  /\ timestamps["System"][1] < timestamps["System"][2]

\* C18: the remaining time of a process is never below 0 and never above
\* its burst time, and its burst time never changes
C18_RemainingBounds ==
  /\ [](\A p \in Submitted :
          /\ 0 <= procs[p].remaining_time
          /\ procs[p].remaining_time <= procs[p].burst_time)
  /\ [][\A p \in Submitted : procs'[p].burst_time = procs[p].burst_time]_vars

C18_Witness ==
  \E p \in Submitted :
    /\ procs[p].burst_time = MaxBurst
    /\ procs[p].remaining_time = 0
    /\ rr_rounds[p] >= 2
    /\ counted[p] = 1

\* C19: the remaining time of a process changes only in the step in which a
\* CPU that holds it ends a slice; enqueue, dequeue, Round Robin and SJF
\* selection, the re-enqueue without a free CPU and the sampling leave it as
\* it is, so that it always is the burst time less the slices CPUs executed
C19_RemainingOnlyOnCpu ==
  /\ [](\A p \in Submitted :
          procs[p].remaining_time = procs[p].burst_time - cpu_time[p])
  /\ [][\A p \in Submitted :
          procs'[p].remaining_time # procs[p].remaining_time =>
            \E c \in Cpus : running[c] = p /\ running'[c] = None]_vars

\* the queues that give a process to the loop iteration that starts here
Yielding ==
  {pr \in Priorities :
     /\ queue[pr] # <<>>
     /\ algorithm[pr] = "Round Robin" =>
          procs[Head(queue[pr])].remaining_time <= time_quantum}

\* the process the queue gives
YieldOf(pr) ==
  IF algorithm[pr] = "SJF" THEN SortByBurst(procs, queue[pr])[1] ELSE Head(queue[pr])

\* the number of queues of higher priority that give a process
Rank(pr) == Cardinality({o \in Yielding : PriorityIndex(o) < PriorityIndex(pr)})

FreeCpus == Cardinality({c \in Cpus : is_free[c]})

\* C20: a loop iteration visits the queues in the order Real Time, System,
\* Interactive, Batch, Low Priority and takes at most one process from each;
\* the processes the queues give get the free CPUs in that order, so that
\* with fewer free CPUs than processes those of the higher priority levels
\* are dispatched and the others are put at the tail of their queues again
C20_PriorityOrder ==
  [][ticks' # ticks =>
       /\ Len(started') - Len(started) = Min(FreeCpus, Cardinality(Yielding))
       /\ \A i, j \in (Len(started) + 1) .. Len(started') :
            i < j => PriorityIndex(procs[started'[i]].priority)
                       < PriorityIndex(procs[started'[j]].priority)
       /\ \A pr \in Priorities : Len(queue[pr]) - Len(queue'[pr]) <= 1
       /\ \A pr \in Yielding :
            IF Rank(pr) < FreeCpus
              THEN /\ YieldOf(pr) \in NewlyStarted
                   /\ Occurrences(queue'[pr], YieldOf(pr)) = 0
            ELSE /\ YieldOf(pr) \notin NewlyStarted
                 /\ Last(queue'[pr]) = YieldOf(pr)]_vars

C20_Witness ==
  /\ num_cpus = 1
  /\ ticks = 1
  /\ Len(started) = 1
  /\ procs[started[1]].priority = "Real Time"
  /\ running[0] = started[1]
  /\ Len(queue["Batch"]) = 1
  /\ Len(wait_times["Batch"]) = 1
  /\ Len(queue["Low Priority"]) = 1

\* the CPUs that take a process in this step
NewlyBusy == {c \in Cpus : is_free[c] /\ ~is_free'[c]}

\* C21: a process that is dispatched goes to the free CPU of the lowest
\* index: a CPU is chosen only if every CPU of a lower index is busy at
\* that moment, and it is marked busy in the step of the dispatch
C21_FirstFit ==
  [][ticks' # ticks =>
       /\ \A p \in NewlyStarted :
            \E c \in NewlyBusy : running'[c] = p
       /\ \A c \in NewlyBusy :
            /\ running'[c] \in NewlyStarted
            /\ \A d \in Cpus : d < c =>
                 /\ ~is_free'[d]
                 /\ d \in NewlyBusy =>
                      IndexIn(started', running'[d]) < IndexIn(started', running'[c])
       /\ \A c \in Cpus : ~is_free[c] => running'[c] = running[c]]_vars

C21_Witness ==
  /\ num_cpus = MaxCpus
  /\ ticks = 2
  /\ Len(started) = 2
  /\ running[0] = started[1]
  /\ running[1] = started[2]
  /\ cpu_usage_data[0][5] = 1
  /\ cpu_usage_data[1][5] = 0

\* every process submitted so far has been given to a CPU, and no more come
AllStarted ==
  /\ Len(procs) = total_processes
  /\ \A p \in Submitted : p \in Elements(started)

\* C22: a process that a queue gives while no CPU is free is put at the tail
\* of that same queue again, once, and is in no other queue and on no CPU;
\* its remaining time and the completed count are as before and no other
\* process of the queue is lost; it is given to a CPU later
C22_Requeue ==
  /\ [][ticks' # ticks =>
          \A pr \in Yielding :
            Rank(pr) >= FreeCpus =>
              LET p == YieldOf(pr)
              IN /\ Last(queue'[pr]) = p
                 /\ Occurrences(queue'[pr], p) = 1
                 /\ Len(queue'[pr]) = Len(queue[pr])
                 /\ \A o \in Priorities \ {pr} : Occurrences(queue'[o], p) = 0
                 /\ \A c \in Cpus : running'[c] # p
                 /\ procs'[p].remaining_time = procs[p].remaining_time
                 /\ counted'[p] = counted[p]
                 /\ completed_processes' = completed_processes]_vars
  /\ (~AllStarted ~> AllStarted)

C22_Witness ==
  /\ num_cpus = 1
  /\ started = <<1, 2>>
  /\ procs[2].priority = "Real Time"
  /\ procs[1].priority = "Real Time"
  /\ new_process_count["Real Time"] = 3
  /\ Len(wait_times["Real Time"]) = 3

\* C23: the scheduler of run_simulation_dynamic has the time_quantum argument
\* of the caller as its Round Robin time quantum and the default slice limit,
\* not the time quantum, as the slice limit of every CPU, which is the
\* binding of run_simulation_static for the same time_quantum
C23_ConstructorBinding ==
  /\ time_quantum = time_quantum_arg
  /\ cpu_burst_time = Defaults.burst_time

====
